---- MODULE Spec2Model ----
(***************************************************************************)
(* ROICalculator (src/src/index.js): five numeric inputs held in React     *)
(* state, six results recomputed by calculateResults on every render.      *)
(*                                                                         *)
(* JavaScript numbers are IEEE 754 binary64 values.  They are modelled     *)
(* bit-exactly: a finite number is sign, 53-bit significand and exponent,  *)
(* and every operation rounds to nearest, ties to even.  Significands do   *)
(* not fit the integers of the model checker, so they are kept as          *)
(* little-endian sequences of limbs of radix 2^14.                         *)
(***************************************************************************)
EXTENDS Integers, Sequences, FiniteSets, TLC

Max(a, b) == IF a >= b THEN a ELSE b
Min(a, b) == IF a <= b THEN a ELSE b

(***************************************************************************)
(* Natural numbers of arbitrary size: <<>> is 0, no high zero limb.        *)
(***************************************************************************)
Base == 2^14
LimbBits == 14

Limb(a, i) == IF i >= 1 /\ i <= Len(a) THEN a[i] ELSE 0

RECURSIVE BTrim(_)
BTrim(a) ==
  IF a = <<>> THEN a
  ELSE IF a[Len(a)] = 0 THEN BTrim(SubSeq(a, 1, Len(a) - 1)) ELSE a

RECURSIVE BCarry(_, _, _)
BCarry(cols, i, c) ==
  IF i > Len(cols) /\ c = 0 THEN <<>>
  ELSE LET t == Limb(cols, i) + c
       IN  <<t % Base>> \o BCarry(cols, i + 1, t \div Base)

BFromInt(n) == BTrim(BCarry(<<n>>, 1, 0))

BAdd(a, b) ==
  BTrim(BCarry([i \in 1..Max(Len(a), Len(b)) |-> Limb(a, i) + Limb(b, i)], 1, 0))

RECURSIVE BBorrow(_, _, _, _)
BBorrow(a, b, i, br) ==
  IF i > Len(a) THEN <<>>
  ELSE LET t == a[i] - Limb(b, i) - br
       IN  <<IF t < 0 THEN t + Base ELSE t>>
             \o BBorrow(a, b, i + 1, IF t < 0 THEN 1 ELSE 0)

\* a - b, for a >= b
BSub(a, b) == BTrim(BBorrow(a, b, 1, 0))

RECURSIVE BCmpAt(_, _, _)
BCmpAt(a, b, i) ==
  IF i = 0 THEN 0
  ELSE IF a[i] # b[i] THEN (IF a[i] > b[i] THEN 1 ELSE -1)
  ELSE BCmpAt(a, b, i - 1)

\* -1, 0 or 1 as a < b, a = b, a > b
BCmp(a, b) ==
  IF Len(a) # Len(b) THEN (IF Len(a) > Len(b) THEN 1 ELSE -1)
  ELSE BCmpAt(a, b, Len(a))

RECURSIVE BColSum(_, _, _, _)
BColSum(a, b, k, i) ==
  IF i > Min(Len(a), k) THEN 0
  ELSE a[i] * b[k + 1 - i] + BColSum(a, b, k, i + 1)

\* schoolbook product; one operand has at most 7 limbs, so a column sum
\* stays below 2^31
BMul(a, b) ==
  IF a = <<>> \/ b = <<>> THEN <<>>
  ELSE BTrim(BCarry([k \in 1..(Len(a) + Len(b) - 1) |->
                       BColSum(a, b, k, Max(1, k + 1 - Len(b)))], 1, 0))

BShl(a, n) ==
  IF a = <<>> THEN <<>>
  ELSE [i \in 1..(n \div LimbBits) |-> 0] \o BMul(a, <<2^(n % LimbBits)>>)

\* floor(a / 2^n)
BShr(a, n) ==
  LET w == n \div LimbBits
      r == n % LimbBits
      p == 2^r
      q == 2^(LimbBits - r)
  IN  IF w >= Len(a) THEN <<>>
      ELSE BTrim([i \in 1..(Len(a) - w) |->
                    (a[i + w] \div p) + (Limb(a, i + w + 1) % p) * q])

RECURSIVE IntBits(_)
IntBits(n) == IF n = 0 THEN 0 ELSE 1 + IntBits(n \div 2)

BBitLen(a) ==
  IF a = <<>> THEN 0 ELSE LimbBits * (Len(a) - 1) + IntBits(a[Len(a)])

BIsOdd(a) == a # <<>> /\ a[1] % 2 = 1

\* bit n of a, bit 0 being the lowest
BBit(a, n) == (Limb(a, n \div LimbBits + 1) \div 2^(n % LimbBits)) % 2

\* a mod 2^n = 0
BLowBitsZero(a, n) ==
  /\ \A i \in 1..(n \div LimbBits) : Limb(a, i) = 0
  /\ Limb(a, n \div LimbBits + 1) % 2^(n % LimbBits) = 0

\* a * k for a single limb k
BMulLimb(a, k) ==
  IF k = 0 THEN <<>> ELSE BTrim(BCarry([i \in 1..Len(a) |-> a[i] * k], 1, 0))

\* the number of low limbs of a that are zero, for a # <<>>
RECURSIVE BLowZeros(_, _)
BLowZeros(a, i) == IF a[i] # 0 THEN i - 1 ELSE BLowZeros(a, i + 1)

\* one quotient limb: the largest q <= qhat with d * q <= r, and r - d * q
RECURSIVE BDivDigit(_, _, _)
BDivDigit(d, r, qhat) ==
  LET p == BMulLimb(d, qhat)
  IN  IF BCmp(p, r) > 0 THEN BDivDigit(d, r, qhat - 1)
      ELSE [q |-> qhat, r |-> BSub(r, p)]

\* long division by a divisor d whose top limb is at least Base/2;
\* i runs over the limbs of a from the top, r < d is the running remainder
RECURSIVE BDivStep(_, _, _, _, _)
BDivStep(a, d, i, r, q) ==
  IF i = 0 THEN [q |-> BTrim(q), r |-> r]
  ELSE LET r1   == BTrim(<<a[i]>> \o r)
           n    == Len(d)
           top  == Limb(r1, n + 1) * Base + Limb(r1, n)
           step == IF BCmp(r1, d) < 0 THEN [q |-> 0, r |-> r1]
                   ELSE BDivDigit(d, r1, Min(Base - 1, top \div d[n]))
       IN  BDivStep(a, d, i - 1, step.r, <<step.q>> \o q)

\* quotient and remainder; the top Len(d) - 1 limbs of a are below d and
\* start the remainder
BDivMod(a, d) ==
  LET k == Min(Len(a), Len(d) - 1)
  IN  BDivStep(a, d, Len(a) - k, BTrim(SubSeq(a, Len(a) - k + 1, Len(a))), <<>>)

(***************************************************************************)
(* IEEE 754 binary64.  A finite value is (-1)^s * m * 2^e with m below     *)
(* 2^53; m is at least 2^52 unless e = EMin (subnormals and zero, which is *)
(* m = <<>>, e = EMin).  Equal values have equal records, except that      *)
(* +0 and -0 are different records that compare equal, as in JavaScript.   *)
(***************************************************************************)
Precision == 53
EMin == 0 - 1074
EMax == 971

Fin(s, m, e) == [k |-> "fin", s |-> s, m |-> m, e |-> e]
Zero(s) == Fin(s, <<>>, EMin)
Inf(s) == [k |-> "inf", s |-> s, m |-> <<>>, e |-> 0]
NaN == [k |-> "nan", s |-> 0, m |-> <<>>, e |-> 0]

IsNaN(x) == x.k = "nan"
IsFinite(x) == x.k = "fin"
IsZero(x) == x.k = "fin" /\ x.m = <<>>
Xor(s, t) == (s + t) % 2
Neg(x) == IF IsNaN(x) THEN x ELSE [x EXCEPT !.s = 1 - @]

\* the binary64 nearest to (-1)^s * (m + f) * 2^e, where 0 <= f < 1 and
\* f > 0 exactly if sticky; ties go to the even significand
Round(s, m, e, sticky) ==
  LET n  == BBitLen(m)
      sh == Max(n - Precision, EMin - e)
  IN  IF m = <<>> THEN Zero(s)
      ELSE IF sh <= 0
      THEN LET k == Min(Precision - n, e - EMin)
           IN  Fin(s, BShl(m, k), e - k)
      ELSE LET q    == BShr(m, sh)
               half == BBit(m, sh - 1) = 1
               tie  == BLowBitsZero(m, sh - 1) /\ ~sticky
               up   == half /\ (~tie \/ BIsOdd(q))
               q1   == IF up THEN BAdd(q, <<1>>) ELSE q
               over == BBitLen(q1) > Precision
               m1   == IF over THEN BShr(q1, 1) ELSE q1
               e1   == IF over THEN e + sh + 1 ELSE e + sh
           IN  IF m1 = <<>> THEN Zero(s)
               ELSE IF e1 > EMax THEN Inf(s)
               ELSE Fin(s, m1, e1)

\* the binary64 nearest to (-1)^s * (num / den) * 2^e, for num, den > 0
FromRatio(s, num, den, e) ==
  LET z  == BLowZeros(den, 1)
      d0 == SubSeq(den, z + 1, Len(den))
      sd == (LimbBits - (BBitLen(d0) % LimbBits)) % LimbBits
      d1 == BShl(d0, sd)
      sn == Max(0, BBitLen(d1) + Precision + 2 - BBitLen(num))
      dm == BDivMod(BShl(num, sn), d1)
  IN  Round(s, dm.q, e - sn + sd - z * LimbBits, dm.r # <<>>)

\* a * b
Mul(a, b) ==
  IF IsNaN(a) \/ IsNaN(b) THEN NaN
  ELSE IF a.k = "inf" \/ b.k = "inf"
  THEN (IF IsZero(a) \/ IsZero(b) THEN NaN ELSE Inf(Xor(a.s, b.s)))
  ELSE IF IsZero(a) \/ IsZero(b) THEN Zero(Xor(a.s, b.s))
  ELSE LET za == BLowZeros(a.m, 1)
           zb == BLowZeros(b.m, 1)
       IN  Round(Xor(a.s, b.s),
                 BMul(SubSeq(a.m, za + 1, Len(a.m)), SubSeq(b.m, zb + 1, Len(b.m))),
                 a.e + b.e + (za + zb) * LimbBits, FALSE)

\* a / b
Div(a, b) ==
  IF IsNaN(a) \/ IsNaN(b) THEN NaN
  ELSE IF a.k = "inf"
  THEN (IF b.k = "inf" THEN NaN ELSE Inf(Xor(a.s, b.s)))
  ELSE IF b.k = "inf" THEN Zero(Xor(a.s, b.s))
  ELSE IF IsZero(b)
  THEN (IF IsZero(a) THEN NaN ELSE Inf(Xor(a.s, b.s)))
  ELSE IF IsZero(a) THEN Zero(Xor(a.s, b.s))
  ELSE FromRatio(Xor(a.s, b.s), a.m, b.m, a.e - b.e)

\* beyond this exponent gap the smaller addend is below a quarter ulp
AlignLimit == 2 * Precision

\* a + b
Add(a, b) ==
  IF IsNaN(a) \/ IsNaN(b) THEN NaN
  ELSE IF a.k = "inf"
  THEN (IF b.k = "inf" /\ b.s # a.s THEN NaN ELSE a)
  ELSE IF b.k = "inf" THEN b
  ELSE IF IsZero(a) /\ IsZero(b) THEN Zero(IF a.s = 1 /\ b.s = 1 THEN 1 ELSE 0)
  ELSE IF IsZero(a) THEN b
  ELSE IF IsZero(b) THEN a
  ELSE IF a.e - b.e > AlignLimit THEN a
  ELSE IF b.e - a.e > AlignLimit THEN b
  ELSE LET e  == Min(a.e, b.e)
           ma == BShl(a.m, a.e - e)
           mb == BShl(b.m, b.e - e)
           c  == BCmp(ma, mb)
       IN  IF a.s = b.s THEN Round(a.s, BAdd(ma, mb), e, FALSE)
           ELSE IF c = 0 THEN Zero(0)
           ELSE IF c > 0 THEN Round(a.s, BSub(ma, mb), e, FALSE)
           ELSE Round(b.s, BSub(mb, ma), e, FALSE)

\* -1, 0, 1 as |a| < |b|, |a| = |b|, |a| > |b|, for a, b not NaN
CmpAbs(a, b) ==
  IF a.k = "inf" THEN (IF b.k = "inf" THEN 0 ELSE 1)
  ELSE IF b.k = "inf" THEN -1
  ELSE IF IsZero(a) THEN (IF IsZero(b) THEN 0 ELSE -1)
  ELSE IF IsZero(b) THEN 1
  ELSE IF a.e # b.e THEN (IF a.e > b.e THEN 1 ELSE -1)
  ELSE BCmp(a.m, b.m)

\* -1, 0, 1 as a < b, a == b, a > b, for a, b not NaN; -0 == +0
Cmp(a, b) ==
  IF IsZero(a) /\ IsZero(b) THEN 0
  ELSE IF a.s # b.s THEN (IF a.s = 0 THEN 1 ELSE -1)
  ELSE IF a.s = 0 THEN CmpAbs(a, b) ELSE 0 - CmpAbs(a, b)

\* the relational operators: every comparison with NaN is false
Geq(a, b) == ~IsNaN(a) /\ ~IsNaN(b) /\ Cmp(a, b) >= 0
Gt(a, b) == ~IsNaN(a) /\ ~IsNaN(b) /\ Cmp(a, b) > 0
\* a === b
StrictEq(a, b) == ~IsNaN(a) /\ ~IsNaN(b) /\ Cmp(a, b) = 0

\* the Number value of a non-negative integer literal
Lit(n) == Round(0, BFromInt(n), 0, FALSE)

(***************************************************************************)
(* Text of an input field: a sequence of characters.                       *)
(***************************************************************************)
Digits == <<"0", "1", "2", "3", "4", "5", "6", "7", "8", "9">>
IsDigit(c) == \E i \in 1..Len(Digits) : Digits[i] = c
DigitVal(c) == (CHOOSE i \in 1..Len(Digits) : Digits[i] = c) - 1
AllDigits(str) == \A i \in 1..Len(str) : IsDigit(str[i])

RECURSIVE BFromDigits(_, _, _)
BFromDigits(str, i, acc) ==
  IF i > Len(str) THEN acc
  ELSE BFromDigits(str, i + 1,
                   BAdd(BMul(acc, BFromInt(10)), BFromInt(DigitVal(str[i]))))

RECURSIVE BPow10(_)
BPow10(n) == IF n = 0 THEN <<1>> ELSE BMul(BPow10(n - 1), BFromInt(10))

\* Number(str) for a string without white space or exponent part:
\* StringNumericLiteral of ECMAScript, the empty string being +0
StringToNumber(str) ==
  IF str = <<>> THEN Zero(0)
  ELSE LET signed == str[1] \in {"-", "+"}
           s      == IF str[1] = "-" THEN 1 ELSE 0
           body   == IF signed THEN SubSeq(str, 2, Len(str)) ELSE str
           dots   == {i \in 1..Len(body) : body[i] = "."}
           dot    == IF dots = {} THEN Len(body) + 1 ELSE CHOOSE i \in dots : TRUE
           int    == SubSeq(body, 1, dot - 1)
           frac   == SubSeq(body, dot + 1, Len(body))
           num    == BFromDigits(int \o frac, 1, <<>>)
       IN  IF Cardinality(dots) > 1 \/ ~AllDigits(int) \/ ~AllDigits(frac)
              \/ int \o frac = <<>>
           THEN NaN
           ELSE IF num = <<>> THEN Zero(s)
           ELSE FromRatio(s, num, BPow10(Len(frac)), 0)

\* a valid floating-point number of HTML: an optional "-", then digits,
\* or digits "." digits, or "." digits (no exponent within the alphabet)
IsValidFloat(str) ==
  LET body == IF str # <<>> /\ str[1] = "-" THEN SubSeq(str, 2, Len(str)) ELSE str
      dots == {i \in 1..Len(body) : body[i] = "."}
      dot  == IF dots = {} THEN Len(body) + 1 ELSE CHOOSE i \in dots : TRUE
      int  == SubSeq(body, 1, dot - 1)
      frac == SubSeq(body, dot + 1, Len(body))
  IN  /\ Cardinality(dots) <= 1
      /\ AllDigits(int) /\ AllDigits(frac)
      /\ IF dots = {} THEN int # <<>> ELSE frac # <<>>

\* the value of <input type="number">: what was typed if it is a valid
\* floating-point number, the empty string otherwise
InputValue(typed) == IF IsValidFloat(typed) THEN typed ELSE <<>>

(***************************************************************************)
(* The component.                                                          *)
(***************************************************************************)
VARIABLES inputs, results

vars == <<inputs, results>>

Fields ==
  {"annualWaferDemand", "waferCost", "prepayment", "priceDiscount", "flexibilityBand"}

ResultFields ==
  {"baseCost", "prepaymentAmount", "costSavings", "flexibilityValue", "baseROI", "totalROI"}

\* what the user may type into a field
TypedTexts ==
  { <<"-">>, <<"0">>, <<"-", "0">>, <<"-", "1">>, <<".", "5">>, <<"3">> }

\* the most fields that differ from their initial value in an explored state
MaxEdited == 2

Hundred == Lit(100)

\* the literal 0.20
MarginFactor == StringToNumber(<<"0", ".", "2", "0">>)

\* a different default for prepayment
InitialInputsPrepay20 ==
  [annualWaferDemand |-> Lit(30000),
   waferCost         |-> Lit(8000),
   prepayment        |-> Lit(20),
   priceDiscount     |-> Lit(5),
   flexibilityBand   |-> Lit(30)]

\* useState({...})
InitialInputs ==
  [annualWaferDemand |-> Lit(30000),
   waferCost         |-> Lit(8000),
   prepayment        |-> Lit(10),
   priceDiscount     |-> Lit(5),
   flexibilityBand   |-> Lit(30)]

\* inputs.annualWaferDemand * inputs.waferCost
baseCost(inp) == Mul(inp.annualWaferDemand, inp.waferCost)

\* a fixed fee on top of the percentage
prepaymentAmountPlusFee(bc, inp) == Add(Mul(bc, Div(inp.prepayment, Hundred)), Lit(1))

\* baseCost * (inputs.prepayment / 100)
prepaymentAmount(bc, inp) == Mul(bc, Div(inp.prepayment, Hundred))

\* baseCost * (inputs.priceDiscount / 100)
costSavings(bc, inp) == Mul(bc, Div(inp.priceDiscount, Hundred))

\* the margin factor left out
flexibilityValueNoMargin(bc, inp) == Mul(bc, Div(inp.flexibilityBand, Hundred))

\* baseCost * (inputs.flexibilityBand / 100) * 0.20
flexibilityValue(bc, inp) ==
  Mul(Mul(bc, Div(inp.flexibilityBand, Hundred)), MarginFactor)

\* a fraction instead of a percentage
baseROIFraction(cs, pa) == Div(cs, pa)

\* a zero prepayment amount reported as a return of 0
baseROIGuarded(cs, pa) == IF IsZero(pa) THEN Zero(0) ELSE Mul(Div(cs, pa), Hundred)

\* (costSavings / prepaymentAmount) * 100
baseROI(cs, pa) == Mul(Div(cs, pa), Hundred)

\* the flexibility value subtracted instead of added
totalROIMinus(cs, fv, pa) == Mul(Div(Add(cs, Neg(fv)), pa), Hundred)

\* ((costSavings + flexibilityValue) / prepaymentAmount) * 100
totalROI(cs, fv, pa) == Mul(Div(Add(cs, fv), pa), Hundred)

\* a zero prepayment amount rejected with an error
calculateResultsThrowing(inp) ==
  LET bc == baseCost(inp)
      pa == prepaymentAmount(bc, inp)
      cs == costSavings(bc, inp)
      fv == flexibilityValue(bc, inp)
  IN  IF IsZero(pa) THEN [error |-> "RangeError"]
      ELSE [baseCost         |-> bc,
            prepaymentAmount |-> pa,
            costSavings      |-> cs,
            flexibilityValue |-> fv,
            baseROI          |-> baseROI(cs, pa),
            totalROI         |-> totalROI(cs, fv, pa)]

calculateResults(inp) ==
  LET bc == baseCost(inp)
      pa == prepaymentAmount(bc, inp)
      cs == costSavings(bc, inp)
      fv == flexibilityValue(bc, inp)
  IN  [baseCost         |-> bc,
       prepaymentAmount |-> pa,
       costSavings      |-> cs,
       flexibilityValue |-> fv,
       baseROI          |-> baseROI(cs, pa),
       totalROI         |-> totalROI(cs, fv, pa)]

Init ==
  /\ inputs = InitialInputs
  /\ results = calculateResults(inputs)

\* the results rendered from the inputs of the previous render
onChangeStale(name, typed) ==
  /\ inputs' = [inputs EXCEPT ![name] = StringToNumber(InputValue(typed))]
  /\ results' = calculateResults(inputs)

\* a base cost that accumulates over the renders
onChangeAccumulating(name, typed) ==
  /\ inputs' = [inputs EXCEPT ![name] = StringToNumber(InputValue(typed))]
  /\ results' = [calculateResults(inputs') EXCEPT
                   !.baseCost = Add(@, results.baseCost)]

\* {...prev, name: value}: the key "name" instead of the field's name
onChangeFixedKey(name, typed) ==
  /\ inputs' = [f \in DOMAIN inputs \cup {"name"} |->
                  IF f = "name" THEN StringToNumber(InputValue(typed)) ELSE inputs[f]]
  /\ results' = calculateResults(inputs')

\* the change event of the field called name, and the render it causes
onChange(name, typed) ==
  /\ inputs' = [inputs EXCEPT ![name] = StringToNumber(InputValue(typed))]
  /\ results' = calculateResults(inputs')

Edited(inp) == {f \in Fields : inp[f] # InitialInputs[f]}

Next ==
  \E name \in Fields, typed \in TypedTexts :
    /\ Cardinality(Edited(inputs) \cup {name}) <= MaxEdited
    /\ onChange(name, typed)

Spec == Init /\ [][Next]_vars

(***************************************************************************)
(* Properties.                                                             *)
(***************************************************************************)
\* the values a field can take in an explored state
FieldValues ==
  {StringToNumber(InputValue(typed)) : typed \in TypedTexts}
    \cup {InitialInputs[f] : f \in Fields}

IsNumber(x) == x.k \in {"fin", "inf", "nan"}

\* numerically equal, or not-a-number both
Unchanged(a, b) == (IsNaN(a) /\ IsNaN(b)) \/ StrictEq(a, b)

\* the next binary64 above a positive normal x
NextUp(x) == Round(x.s, BAdd(x.m, <<1>>), x.e, FALSE)

UlpTolerance == 2^5

\* equal up to UlpTolerance units in the last place
WithinUlps(a, b) ==
  \/ IsNaN(a) /\ IsNaN(b)
  \/ a.k = "inf" /\ b.k = "inf" /\ a.s = b.s
  \/ IsZero(a) /\ IsZero(b)
  \/ /\ IsFinite(a) /\ IsFinite(b) /\ ~IsZero(a) /\ ~IsZero(b)
     /\ a.s = b.s
     /\ a.e - b.e \in {-1, 0, 1}
     /\ LET e  == Min(a.e, b.e)
            ma == BShl(a.m, a.e - e)
            mb == BShl(b.m, b.e - e)
        IN  BCmp(IF BCmp(ma, mb) >= 0 THEN BSub(ma, mb) ELSE BSub(mb, ma),
                 BFromInt(UlpTolerance)) <= 0

\* C1: the four money results are the stated products of the inputs, the
\* flexibility value with the fixed factor 0.20 whatever the inputs are
C1_Products ==
  /\ results.baseCost = Mul(inputs.annualWaferDemand, inputs.waferCost)
  /\ results.prepaymentAmount =
       Mul(results.baseCost, Div(inputs.prepayment, Lit(100)))
  /\ results.costSavings =
       Mul(results.baseCost, Div(inputs.priceDiscount, Lit(100)))
  /\ results.flexibilityValue =
       Mul(Mul(results.baseCost, Div(inputs.flexibilityBand, Lit(100))),
           Div(Lit(1), Lit(5)))

C1_Witness ==
  /\ inputs.flexibilityBand # InitialInputs.flexibilityBand
  /\ inputs.annualWaferDemand # InitialInputs.annualWaferDemand
  /\ IsFinite(results.flexibilityValue) /\ ~IsZero(results.flexibilityValue)

\* C2: with prepayment > 0 the two returns are the stated ratios of the
\* results of the same record, times 100
C2_Ratios ==
  Gt(inputs.prepayment, Zero(0)) =>
    /\ results.baseROI =
         Mul(Div(results.costSavings, results.prepaymentAmount), Lit(100))
    /\ results.totalROI =
         Mul(Div(Add(results.costSavings, results.flexibilityValue),
                 results.prepaymentAmount), Lit(100))

C2_Witness ==
  /\ Gt(inputs.prepayment, Zero(0))
  /\ inputs.prepayment # InitialInputs.prepayment
  /\ IsFinite(results.baseROI) /\ ~IsZero(results.baseROI)
  /\ results.totalROI # results.baseROI

\* C3 as stated: whenever flexibilityValue >= 0, totalROI >= baseROI
C3_Original ==
  Geq(results.flexibilityValue, Zero(0)) =>
    Geq(results.totalROI, results.baseROI)

\* C3 amended: whenever flexibilityValue >= 0 and prepaymentAmount > 0, all
\* of prepaymentAmount, costSavings and flexibilityValue finite,
\* totalROI >= baseROI
C3_Amended ==
  ( /\ Geq(results.flexibilityValue, Zero(0))
    /\ Gt(results.prepaymentAmount, Zero(0))
    /\ IsFinite(results.prepaymentAmount)
    /\ IsFinite(results.costSavings)
    /\ IsFinite(results.flexibilityValue) )
  => Geq(results.totalROI, results.baseROI)

C3_Witness ==
  /\ Gt(results.flexibilityValue, Zero(0))
  /\ Gt(results.prepaymentAmount, Zero(0))
  /\ Gt(Zero(0), inputs.priceDiscount)
  /\ Gt(results.totalROI, results.baseROI)

\* zero, or of a magnitude from 2^-100 up to 2^100: no step of
\* calculateResults overflows or underflows on such inputs
Moderate(x) ==
  IsZero(x) \/ (IsFinite(x) /\ x.e + Precision - 1 \in (0 - 100)..100)

DemandDoubled(inp) == [inp EXCEPT !.annualWaferDemand = Mul(Lit(2), @)]

\* doubling annualWaferDemand doubles the four money results and leaves
\* the two returns as they are
DoublingScales ==
  LET r2 == calculateResults(DemandDoubled(inputs))
  IN  /\ r2.baseCost = Mul(Lit(2), results.baseCost)
      /\ r2.prepaymentAmount = Mul(Lit(2), results.prepaymentAmount)
      /\ r2.costSavings = Mul(Lit(2), results.costSavings)
      /\ r2.flexibilityValue = Mul(Lit(2), results.flexibilityValue)
      /\ Unchanged(r2.baseROI, results.baseROI)
      /\ Unchanged(r2.totalROI, results.totalROI)

\* C4 as stated: doubling scales, and any other waferCost leaves both
\* returns as they are
C4_Original ==
  /\ DoublingScales
  /\ \A c \in FieldValues :
       LET rc == calculateResults([inputs EXCEPT !.waferCost = c])
       IN  /\ Unchanged(rc.baseROI, results.baseROI)
           /\ Unchanged(rc.totalROI, results.totalROI)

\* C4 amended: for inputs of moderate magnitude, doubling scales; from a
\* non-zero waferCost to another non-zero waferCost, priceDiscount and
\* flexibilityBand being >= 0, both returns stay within UlpTolerance units
\* in the last place; with waferCost 0 both returns are not-a-number
C4_Amended ==
  /\ (\A f \in Fields : Moderate(inputs[f])) => DoublingScales
  /\ \A c \in FieldValues :
       LET rc == calculateResults([inputs EXCEPT !.waferCost = c])
       IN  /\ ( /\ \A f \in Fields : Moderate(inputs[f])
                /\ Moderate(c)
                /\ ~IsZero(c) /\ ~IsZero(inputs.waferCost)
                /\ Geq(inputs.priceDiscount, Zero(0))
                /\ Geq(inputs.flexibilityBand, Zero(0)) )
              => /\ WithinUlps(rc.baseROI, results.baseROI)
                 /\ WithinUlps(rc.totalROI, results.totalROI)
           /\ IsZero(c) => IsNaN(rc.baseROI) /\ IsNaN(rc.totalROI)

C4_Witness ==
  /\ inputs.annualWaferDemand # InitialInputs.annualWaferDemand
  /\ ~IsZero(inputs.waferCost)
  /\ IsFinite(results.totalROI) /\ ~IsZero(results.totalROI)
  /\ \E c \in FieldValues :
       /\ ~IsZero(c)
       /\ calculateResults([inputs EXCEPT !.waferCost = c]).totalROI
            # results.totalROI

\* the return num / pa * 100 for a zero pa: not-a-number for a zero
\* numerator, else the infinity whose sign is that of num / pa
ZeroDivisionROI(num, pa) ==
  IF IsZero(num) THEN NaN ELSE Inf(Xor(num.s, pa.s))

\* C5 as stated: with prepayment 0, prepaymentAmount is 0 and each return is
\* positive infinity, or not-a-number when its numerator is zero
C5_Original ==
  IsZero(inputs.prepayment) =>
    /\ IsZero(results.prepaymentAmount)
    /\ results.baseROI =
         (IF IsZero(results.costSavings) THEN NaN ELSE Inf(0))
    /\ results.totalROI =
         (IF IsZero(Add(results.costSavings, results.flexibilityValue))
          THEN NaN ELSE Inf(0))

\* C5 amended: with prepayment 0 (of either sign) and finite baseCost,
\* costSavings and flexibilityValue, prepaymentAmount is 0 and each return is
\* not-a-number when its numerator is zero and otherwise an infinity, positive
\* or negative as the signs of its numerator and of the zero prepaymentAmount
\* agree or differ; no finite value is produced
C5_Amended ==
  ( /\ IsZero(inputs.prepayment)
    /\ IsFinite(results.baseCost)
    /\ IsFinite(results.costSavings)
    /\ IsFinite(results.flexibilityValue) )
  => /\ IsZero(results.prepaymentAmount)
     /\ results.baseROI =
          ZeroDivisionROI(results.costSavings, results.prepaymentAmount)
     /\ results.totalROI =
          ZeroDivisionROI(Add(results.costSavings, results.flexibilityValue),
                          results.prepaymentAmount)

C5_Witness ==
  /\ IsZero(inputs.prepayment)
  /\ results.baseROI = Inf(1)
  /\ results.totalROI = Inf(0)

\* C6 as stated: before any change the inputs are 30000, 8000, 10, 5, 30 and
\* the results 240000000, 24000000, 12000000, 14400000, 50 and 110
C6_Original ==
  inputs = InitialInputs =>
    /\ inputs = [annualWaferDemand |-> Lit(30000), waferCost |-> Lit(8000),
                 prepayment |-> Lit(10), priceDiscount |-> Lit(5),
                 flexibilityBand |-> Lit(30)]
    /\ results = [baseCost         |-> Lit(240000000),
                  prepaymentAmount |-> Lit(24000000),
                  costSavings      |-> Lit(12000000),
                  flexibilityValue |-> Lit(14400000),
                  baseROI          |-> Lit(50),
                  totalROI         |-> Lit(110)]

\* C6 amended: as stated, except that totalROI is the binary64 next above
\* 110, which is 110.00000000000001
C6_Amended ==
  inputs = InitialInputs =>
    /\ inputs = [annualWaferDemand |-> Lit(30000), waferCost |-> Lit(8000),
                 prepayment |-> Lit(10), priceDiscount |-> Lit(5),
                 flexibilityBand |-> Lit(30)]
    /\ results = [baseCost         |-> Lit(240000000),
                  prepaymentAmount |-> Lit(24000000),
                  costSavings      |-> Lit(12000000),
                  flexibilityValue |-> Lit(14400000),
                  baseROI          |-> Lit(50),
                  totalROI         |-> NextUp(Lit(110))]

C6_Witness == inputs = InitialInputs /\ results.baseROI = Lit(50)

\* C7: whatever the inputs are, zero and negative ones included, the outcome
\* is a record of six numbers, never an error
C7_NoError ==
  /\ DOMAIN results = ResultFields
  /\ \A f \in ResultFields : IsNumber(results[f])

C7_Witness ==
  /\ \E f \in Fields : inputs[f].s = 1 /\ ~IsZero(inputs[f])
  /\ \E f \in Fields : IsZero(inputs[f])
  /\ IsNaN(results.baseROI)

C9_Fresh == results = calculateResults(inputs)

C9_Witness ==
  /\ Edited(inputs) # {}
  /\ results.baseCost # calculateResults(InitialInputs).baseCost

\* C10: the inputs have exactly the five fields before and after every change
\* event, and the event gives one field the number entered and leaves the
\* other four as they were
C10_Frame ==
  [][ /\ DOMAIN inputs = Fields
      /\ DOMAIN inputs' = Fields
      /\ \E name \in Fields :
           /\ \A other \in Fields \ {name} : inputs'[other] = inputs[other]
           /\ \E typed \in TypedTexts :
                inputs'[name] = StringToNumber(InputValue(typed)) ]_vars

C10_Witness ==
  /\ Cardinality(Edited(inputs)) = 1
  /\ inputs.priceDiscount = StringToNumber(<<".", "5">>)

====
